---- MODULE Spec2Model ----
(***************************************************************************)
(* Streaming chat transport (ApiService.sendChatStreamMessage), the chat   *)
(* page that consumes it (Chat.handleSendMessage through the useChatStream *)
(* hook) and the paginated history store (useChatHistory).                 *)
(*                                                                         *)
(* Text is a sequence of one-character strings, so that chunk boundaries   *)
(* can fall at any byte of the response body.                              *)
(***************************************************************************)
EXTENDS Integers, Sequences, FiniteSets, TLC

\* ------------------------------------------------------------------ bounds
\* Longest generated response body, in lines.
MaxLines == 2
\* Largest advance of Date.now() between the two reads of handleSendMessage.
MaxTick == 1
\* Persisted messages have ids 1..MaxId, assigned in creation order.
MaxId == 2
\* Longest page the modelled backend returns.
MaxPageLen == 2
\* Calls made to one instance of the history hook in a run.
MaxCalls == 3
\* Messages sent from one chat page in a run.
MaxSends == 4
\* Most messages the backend holds for a conversation.
MaxPersisted == 41

\* --------------------------------------------------------------- literals
LF == "\n"
CR == "\r"
EventPrefix == <<"e", "v", "e", "n", "t", ":", " ">>
DataPrefix == <<"d", "a", "t", "a", ":", " ">>
EvInit == <<"i", "n", "i", "t">>
EvComplete == <<"c", "o", "m", "p", "l", "e", "t", "e">>
EvError == <<"e", "r", "r", "o", "r">>
UnknownError == <<"U", "n", "k", "n", "o", "w", "n", " ", "e", "r", "r", "o", "r">>
NoResponseBody ==
    <<"N", "o", " ", "r", "e", "s", "p", "o", "n", "s", "e", " ", "b", "o", "d", "y">>
HttpErrorPrefix == <<"H", "T", "T", "P", " ", "e", "r", "r", "o", "r", ":", " ">>
FallbackContent ==
    <<"L", "o", " ", "s", "i", "e", "n", "t", "o", ",", " ", "n", "o", " ", "p", "u",
      "d", "e", " ", "p", "r", "o", "c", "e", "s", "a", "r", " ", "t", "u", " ", "m",
      "e", "n", "s", "a", "j", "e", ".", " ", "I", "n", "t", "e", "n", "t", "a", " ",
      "d", "e", " ", "n", "u", "e", "v", "o", ".">>

\* JSON documents the modelled server can send.
InitJson ==
    <<"{", "\"", "c", "o", "n", "v", "e", "r", "s", "a", "t", "i", "o", "n", "I", "d",
      "\"", ":", "\"", "a", "b", "c", "\"", "}">>
ErrorJson ==
    <<"{", "\"", "e", "r", "r", "o", "r", "\"", ":", "\"", "b", "o", "o", "m", "\"", "}">>
EmptyErrorJson == <<"{", "\"", "e", "r", "r", "o", "r", "\"", ":", "\"", "\"", "}">>
EmptyObjectJson == <<"{", "}">>
NullJson == <<"n", "u", "l", "l">>
HtmlBody == <<"<", "h", "1", ">">>
Abc == <<"a", "b", "c">>
Boom == <<"b", "o", "o", "m">>
Hi == <<"H", "i">>
Hello == <<"H", "e", "l", "l", "o", "!">>
\* A delta payload with both escapes, the second behind a backslash: \n\\r
EscapedPayload == <<"\\", "n", "\\", "\\", "r">>

\* Messages of the errors the runtime itself raises.
FailedToFetch ==
    <<"F", "a", "i", "l", "e", "d", " ", "t", "o", " ", "f", "e", "t", "c", "h">>
NetworkError == <<"n", "e", "t", "w", "o", "r", "k", " ", "e", "r", "r", "o", "r">>
NullPropertyError ==
    <<"C", "a", "n", "n", "o", "t", " ", "r", "e", "a", "d", " ", "p", "r", "o", "p",
      "e", "r", "t", "i", "e", "s", " ", "o", "f", " ", "n", "u", "l", "l">>

\* ------------------------------------------------------- string primitives
StartsWith(s, p) == Len(s) >= Len(p) /\ SubSeq(s, 1, Len(p)) = p

Slice(s, n) == SubSeq(s, n + 1, Len(s))

IsSpace(c) == c \in {" ", LF, CR, "\t"}

RECURSIVE TrimStart(_)
TrimStart(s) == IF Len(s) > 0 /\ IsSpace(s[1]) THEN TrimStart(Tail(s)) ELSE s

RECURSIVE TrimEnd(_)
TrimEnd(s) ==
    IF Len(s) > 0 /\ IsSpace(s[Len(s)]) THEN TrimEnd(SubSeq(s, 1, Len(s) - 1)) ELSE s

Trim(s) == TrimEnd(TrimStart(s))

\* s.split('\n'): always at least one element, the last one unterminated.
RECURSIVE Split(_)
Split(s) ==
    IF \E i \in 1..Len(s) : s[i] = LF
    THEN LET i == CHOOSE k \in 1..Len(s) : s[k] = LF /\ \A j \in 1..(k - 1) : s[j] # LF
         IN  <<SubSeq(s, 1, i - 1)>> \o Split(SubSeq(s, i + 1, Len(s)))
    ELSE <<s>>

\* s.replace(/\\c/g, rep): every backslash-c pair, left to right.
RECURSIVE ReplaceEscape(_, _, _)
ReplaceEscape(s, c, rep) ==
    IF Len(s) < 2 THEN s
    ELSE IF s[1] = "\\" /\ s[2] = c
         THEN <<rep>> \o ReplaceEscape(SubSeq(s, 3, Len(s)), c, rep)
         ELSE <<s[1]>> \o ReplaceEscape(Tail(s), c, rep)

UnescapeNewlinesOnly(data) == ReplaceEscape(data, "n", LF)

\* data.replace(/\\n/g, '\n').replace(/\\r/g, '\r')
Unescape(data) == ReplaceEscape(ReplaceEscape(data, "n", LF), "r", CR)

\* number.toString() / template interpolation of a non-negative integer.
RECURSIVE Decimal(_)
Decimal(n) ==
    LET d == <<"0", "1", "2", "3", "4", "5", "6", "7", "8", "9">>[(n % 10) + 1]
    IN  IF n < 10 THEN <<d>> ELSE Decimal(n \div 10) \o <<d>>

\* JSON.parse on the documents of the model: ok = FALSE when it throws.
JSONParse(data) ==
    LET doc(isNull, hasId, id, hasErr, err) ==
            [ok |-> TRUE, isNull |-> isNull, hasConversationId |-> hasId,
             conversationId |-> id, hasError |-> hasErr, error |-> err]
    IN  CASE data = InitJson -> doc(FALSE, TRUE, Abc, FALSE, <<>>)
          [] data = ErrorJson -> doc(FALSE, FALSE, <<>>, TRUE, Boom)
          [] data = EmptyErrorJson -> doc(FALSE, FALSE, <<>>, TRUE, <<>>)
          [] data = EmptyObjectJson -> doc(FALSE, FALSE, <<>>, FALSE, <<>>)
          [] data = NullJson -> doc(TRUE, FALSE, <<>>, FALSE, <<>>)
          [] OTHER -> [ok |-> FALSE, isNull |-> FALSE, hasConversationId |-> FALSE,
                       conversationId |-> <<>>, hasError |-> FALSE, error |-> <<>>]

\* ------------------------------------------------------------- variables
VARIABLES
    pc,        \* sendChatStreamMessage: "idle", "fetching", "reading", "done"
    response,  \* what fetch settled with: [kind, status, body]
    pos,       \* bytes of the response body already returned by reader.read()
    buffer,    \* the carry-over buffer of the read loop
    calls,     \* callbacks sendChatStreamMessage has invoked, in order
    outcome,   \* how the request ended: "pending", "eof", "reject", "http", "nobody", "readerr", "nopatient"
    ctl,       \* useChatStream: [isLoading, completed, hasError, error, patientId]
    chat       \* Chat page: [messages, isTyping, assistantContent, assistantId, conversationId, completions, now]

streamVars == <<pc, response, pos, buffer, calls, outcome, ctl, chat>>

VARIABLES
    hs,                \* useChatHistory's React state, as queued by the setters
    view,              \* the state captured by the callbacks of the last render
    loadedMessageIds,  \* the ref: ids merged into the list
    inflight,          \* fetches issued and not yet settled, oldest first
    callCount,         \* calls made to the hook so far
    last,              \* the operation of the last step, with what it started from
    persisted          \* messages the backend holds for the conversation (paging runs)

histVars == <<hs, view, loadedMessageIds, inflight, callCount, last, persisted>>

vars == <<streamVars, histVars>>

\* ------------------------------------------------------ transport decoder
Cb(name, arg) == [cb |-> name, arg |-> arg]

\* The `init` branch: onInit only for a parsed object with a truthy conversationId.
InitCallbacks(data) ==
    LET parsed == JSONParse(data)
    IN  IF parsed.ok /\ ~parsed.isNull /\ parsed.hasConversationId
           /\ parsed.conversationId # <<>>
        THEN <<Cb("onInit", parsed.conversationId)>>
        ELSE <<>>

\* The `error` branch: parsed.error || 'Unknown error', the raw payload when the
\* parse (or the property read on null) throws.
ErrorCallbacks(data) ==
    LET parsed == JSONParse(data)
    IN  IF parsed.ok /\ ~parsed.isNull
        THEN <<Cb("onError", IF parsed.hasError /\ parsed.error # <<>>
                              THEN parsed.error ELSE UnknownError)>>
        ELSE <<Cb("onError", data)>>

\* The default branch: the payload as a text delta, escapes replaced.
DeltaCallbacks(data) == <<Cb("onDelta", Unescape(data))>>

\* A `data: ` line under the current event name.
DataLineCallbacks(currentEvent, data) ==
    IF currentEvent = EvInit THEN InitCallbacks(data)
    ELSE IF currentEvent = EvComplete THEN <<Cb("onComplete", <<>>)>>
    ELSE IF currentEvent = EvError THEN ErrorCallbacks(data)
    ELSE DeltaCallbacks(data)

\* One iteration of `for (const line of lines)`: the event name after the line
\* and the callbacks it invokes.  The reset of the event name sits inside the
\* `data: ` branch, as in the source.
ProcessLine(currentEvent, line) ==
    IF StartsWith(line, EventPrefix)
    THEN [currentEvent |-> Trim(Slice(line, 7)), cbs |-> <<>>]
    ELSE IF StartsWith(line, DataPrefix)
    THEN [currentEvent |-> IF Trim(line) = <<>> THEN <<>> ELSE currentEvent,
          cbs |-> DataLineCallbacks(currentEvent, Trim(Slice(line, 6)))]
    ELSE [currentEvent |-> currentEvent, cbs |-> <<>>]

RECURSIVE ProcessLines(_, _)
ProcessLines(currentEvent, lines) ==
    IF lines = <<>> THEN <<>>
    ELSE LET r == ProcessLine(currentEvent, Head(lines))
         IN  r.cbs \o ProcessLines(r.currentEvent, Tail(lines))

\* One iteration of the read loop on a chunk: the new carry-over buffer and the
\* callbacks of the complete lines.  `let currentEvent = ''` is declared inside
\* the loop body, so every chunk starts from the default event name.
ProcessChunk(buf, chunk) ==
    LET parts == Split(buf \o chunk)
    IN  [buffer |-> parts[Len(parts)],
         cbs |-> ProcessLines(<<>>, SubSeq(parts, 1, Len(parts) - 1))]

EndOfStreamSilent == <<>>

\* `if (done) break;` followed by the unconditional onComplete().
EndOfStreamCallbacks == <<Cb("onComplete", <<>>)>>

CatchSwallows(message) == <<>>

\* The catch block: onError(error.message).
CatchCallbacks(message) == <<Cb("onError", message)>>

HttpErrorGeneric(status, body) == HttpErrorPrefix \o Decimal(status)

\* The message of the Error thrown for !response.ok:
\* errorData = await response.json().catch(() => ({}));
\* errorData.error || `HTTP error: ${response.status}`; reading .error of a
\* body that parsed to null throws the runtime's TypeError instead.
HttpErrorMessage(status, body) ==
    LET parsed == JSONParse(body)
    IN  IF parsed.ok /\ parsed.isNull THEN NullPropertyError
        ELSE IF parsed.ok /\ parsed.hasError /\ parsed.error # <<>> THEN parsed.error
        ELSE HttpErrorPrefix \o Decimal(status)

\* ---------------------------------------------------------- Chat page
\* The clock value of the modelled send.
SendTime == 1000
MessageTexts == {Hi}

\* now is the clock Date.now() reads.
ChatInit ==
    [messages |-> <<>>, isTyping |-> FALSE, assistantContent |-> <<>>,
     assistantId |-> <<>>, conversationId |-> <<>>, completions |-> 0,
     now |-> SendTime]

\* setMessages(prev => prev.map(msg => msg.id === assistantId ? {...msg, content} : msg))
SetAssistantContent(messages, assistantId, content) ==
    [i \in DOMAIN messages |->
        IF messages[i].id = assistantId
        THEN [messages[i] EXCEPT !.content = content]
        ELSE messages[i]]

\* handleSendMessage up to the await: the user message, isTyping, the
\* provisional assistant message.  t1 and t2 are the two reads of Date.now().
ChatSend(c, messageText, t1, t2) ==
    [c EXCEPT
        !.messages = c.messages
            \o <<[id |-> Decimal(t1), content |-> messageText, sender |-> "user"]>>
            \o <<[id |-> Decimal(t2 + 1), content |-> <<>>, sender |-> "misha"]>>,
        !.isTyping = TRUE,
        !.assistantContent = <<>>,
        !.assistantId = Decimal(t2 + 1)]

\* The delta callback handed to sendStreamMessage.
ChatOnDelta(c, delta) ==
    LET content == c.assistantContent \o delta
    IN  [c EXCEPT !.assistantContent = content,
                  !.messages = SetAssistantContent(c.messages, c.assistantId, content)]

ChatOnCompleteNoFallback(c) ==
    [c EXCEPT !.isTyping = FALSE, !.completions = c.completions + 1]

\* The completion callback handed to sendStreamMessage; completions counts its
\* invocations.
ChatOnComplete(c) ==
    [c EXCEPT
        !.isTyping = FALSE,
        !.completions = c.completions + 1,
        !.messages = IF c.assistantContent = <<>>
                     THEN SetAssistantContent(c.messages, c.assistantId, FallbackContent)
                     ELSE c.messages]

\* ------------------------------------------------- useChatStream (hook)
\* The hook's patientId option: null, or the id the page passes.
NullPatient == 0
numericPatientId == 1
PatientIds == {NullPatient, numericPatientId}

CtlInit ==
    [isLoading |-> FALSE, completed |-> FALSE, hasError |-> FALSE, error |-> <<>>,
     patientId |-> NullPatient]

HookRejectsNever(patientId) == FALSE

\* A send without a patient id is rejected before any request is made.
HookRejects(patientId) == patientId = NullPatient

HookSend(s, patientId) ==
    [s EXCEPT !.ctl = [isLoading |-> TRUE, completed |-> FALSE,
                       hasError |-> FALSE, error |-> <<>>, patientId |-> patientId]]

\* The rejected send: no request, no callback.
HookSendRejected(s, patientId) == [s EXCEPT !.ctl.patientId = patientId]

\* onInit: the conversation id goes to onConversationIdChange (setConversationId).
HookOnInit(s, conversationId) == [s EXCEPT !.chat.conversationId = conversationId]

HookOnDelta(s, text) == [s EXCEPT !.chat = ChatOnDelta(s.chat, text)]

HookOnCompleteEveryTime(s) ==
    [s EXCEPT !.ctl.completed = TRUE, !.ctl.isLoading = FALSE,
              !.chat = ChatOnComplete(s.chat)]

\* A completion signal reaches the caller once per request; later ones are ignored.
HookOnComplete(s) ==
    IF s.ctl.completed THEN s
    ELSE [s EXCEPT !.ctl.completed = TRUE, !.ctl.isLoading = FALSE,
                   !.chat = ChatOnComplete(s.chat)]

\* The error path records the message and still leads to completion.
HookOnError(s, message) ==
    HookOnComplete([s EXCEPT !.ctl.hasError = TRUE, !.ctl.error = message])

Deliver(s, c) ==
    CASE c.cb = "onInit" -> HookOnInit(s, c.arg)
      [] c.cb = "onDelta" -> HookOnDelta(s, c.arg)
      [] c.cb = "onComplete" -> HookOnComplete(s)
      [] c.cb = "onError" -> HookOnError(s, c.arg)

RECURSIVE DeliverAll(_, _)
DeliverAll(s, cbs) ==
    IF cbs = <<>> THEN s ELSE DeliverAll(Deliver(s, Head(cbs)), Tail(cbs))

\* ------------------------------------------------------ response bodies
Vocabulary ==
    {EventPrefix \o EvInit, EventPrefix \o EvComplete, EventPrefix \o EvError,
     DataPrefix \o InitJson, DataPrefix \o ErrorJson, DataPrefix \o Hi,
     DataPrefix \o EscapedPayload, DataPrefix, <<>>}

RECURSIVE LineSeqs(_)
LineSeqs(n) ==
    IF n = 0 THEN {<<>>}
    ELSE LET shorter == LineSeqs(n - 1)
         IN  shorter \cup {Append(ls, l) : ls \in {x \in shorter : Len(x) = n - 1},
                                           l \in Vocabulary}

RECURSIVE JoinLines(_)
JoinLines(ls) ==
    IF ls = <<>> THEN <<>> ELSE Head(ls) \o <<LF>> \o JoinLines(Tail(ls))

\* event: init / data: {"conversationId":"abc"} / blank / data: Hel / data: lo /
\* data: ! / event: complete / data: / blank
HelloStream ==
    JoinLines(<<EventPrefix \o EvInit, DataPrefix \o InitJson, <<>>,
                DataPrefix \o <<"H", "e", "l">>, DataPrefix \o <<"l", "o">>,
                DataPrefix \o <<"!">>, EventPrefix \o EvComplete,
                <<"d", "a", "t", "a", ":">>, <<>>>>)

\* event: complete / data: / data: Hi -- a delta line behind the complete event.
LateDeltaStream == JoinLines(<<EventPrefix \o EvComplete, DataPrefix, DataPrefix \o Hi>>)

\* data: Hi / data:  you -- the second delta starts with a space.
SpacedStream == JoinLines(<<DataPrefix \o Hi, DataPrefix \o <<" ", "y", "o", "u">>>>)

\* Every body of at most MaxLines lines, with and without the final newline.
Bodies ==
    LET full == {JoinLines(ls) : ls \in LineSeqs(MaxLines)}
    IN  full \cup {SubSeq(b, 1, Len(b) - 1) : b \in full \ {<<>>}}
             \cup {HelloStream, LateDeltaStream, SpacedStream}

ErrorBodies == {HtmlBody, NullJson, EmptyObjectJson, EmptyErrorJson, ErrorJson}
ErrorStatuses == {404, 500}

\* ------------------------------------------ sendChatStreamMessage: steps
\* The callbacks cbs are invoked, in order, on the hook's handlers.
Invoke(cbs) ==
    LET s == DeliverAll([ctl |-> ctl, chat |-> chat], cbs)
    IN  /\ calls' = calls \o cbs
        /\ ctl' = s.ctl
        /\ chat' = s.chat

\* Chat.handleSendMessage -> sendStreamMessage -> api.sendChatStreamMessage: fetch issued.
HandleSendMessage ==
    /\ pc = "idle"
    /\ \E messageText \in MessageTexts, tick \in 0..MaxTick, patientId \in PatientIds :
          /\ ~HookRejects(patientId)
          /\ LET s == HookSend([ctl |-> ctl,
                                chat |-> ChatSend(chat, messageText, SendTime,
                                                  SendTime + tick)], patientId)
             IN  ctl' = s.ctl /\ chat' = s.chat
    /\ pc' = "fetching"
    /\ UNCHANGED <<response, pos, buffer, calls, outcome, histVars>>

\* The same call on a hook that has no patient id: sendStreamMessage returns
\* without a request.
SendWithoutPatient ==
    /\ pc = "idle"
    /\ \E messageText \in MessageTexts, tick \in 0..MaxTick, patientId \in PatientIds :
          /\ HookRejects(patientId)
          /\ LET s == HookSendRejected([ctl |-> ctl,
                                        chat |-> ChatSend(chat, messageText, SendTime,
                                                          SendTime + tick)], patientId)
             IN  ctl' = s.ctl /\ chat' = s.chat
    /\ pc' = "done"
    /\ outcome' = "nopatient"
    /\ UNCHANGED <<response, pos, buffer, calls, histVars>>

\* fetch rejects: the connection cannot be opened.
FetchRejects ==
    /\ pc = "fetching"
    /\ response' = [kind |-> "reject", status |-> 0, body |-> <<>>]
    /\ Invoke(CatchCallbacks(FailedToFetch))
    /\ outcome' = "reject"
    /\ pc' = "done"
    /\ UNCHANGED <<pos, buffer, histVars>>

\* !response.ok: the thrown Error is caught by the same function.
FetchHttpError ==
    /\ pc = "fetching"
    /\ \E status \in ErrorStatuses, body \in ErrorBodies :
          /\ response' = [kind |-> "http", status |-> status, body |-> body]
          /\ Invoke(CatchCallbacks(HttpErrorMessage(status, body)))
    /\ outcome' = "http"
    /\ pc' = "done"
    /\ UNCHANGED <<pos, buffer, histVars>>

\* response.ok without a body.
FetchNoBody ==
    /\ pc = "fetching"
    /\ response' = [kind |-> "nobody", status |-> 200, body |-> <<>>]
    /\ Invoke(CatchCallbacks(NoResponseBody))
    /\ outcome' = "nobody"
    /\ pc' = "done"
    /\ UNCHANGED <<pos, buffer, histVars>>

\* response.ok with a body: the read loop starts with an empty buffer.
FetchOk ==
    /\ pc = "fetching"
    /\ \E body \in Bodies : response' = [kind |-> "ok", status |-> 200, body |-> body]
    /\ pc' = "reading"
    /\ UNCHANGED <<pos, buffer, calls, outcome, ctl, chat, histVars>>

\* reader.read() returns the next n bytes of the body.
Read ==
    /\ pc = "reading"
    /\ \E n \in 1..(Len(response.body) - pos) :
          LET r == ProcessChunk(buffer, SubSeq(response.body, pos + 1, pos + n))
          IN  /\ pos' = pos + n
              /\ buffer' = r.buffer
              /\ Invoke(r.cbs)
    /\ UNCHANGED <<pc, response, outcome, histVars>>

\* reader.read() returns done.
ReadDone ==
    /\ pc = "reading"
    /\ pos = Len(response.body)
    /\ Invoke(EndOfStreamCallbacks)
    /\ outcome' = "eof"
    /\ pc' = "done"
    /\ UNCHANGED <<response, pos, buffer, histVars>>

\* reader.read() rejects: the connection drops mid-stream.
ReadRejects ==
    /\ pc = "reading"
    /\ Invoke(CatchCallbacks(NetworkError))
    /\ outcome' = "readerr"
    /\ pc' = "done"
    /\ UNCHANGED <<response, pos, buffer, histVars>>

StreamNext ==
    \/ HandleSendMessage
    \/ SendWithoutPatient
    \/ FetchRejects
    \/ FetchHttpError
    \/ FetchNoBody
    \/ FetchOk
    \/ Read
    \/ ReadDone
    \/ ReadRejects

\* ------------------------------------------------------- useChatHistory
NullId == "null"
Convs == {"c1", "c2"}

\* A MessageDto of the backend: createdAt grows with the id.
Dto(i) ==
    [id |-> i, content |-> <<"m">> \o Decimal(i),
     type |-> IF i % 2 = 1 THEN "USER" ELSE "ASSISTANT", createdAt |-> i]

RECURSIVE PagesUpTo(_)
PagesUpTo(n) ==
    IF n = 0 THEN {<<>>}
    ELSE LET shorter == PagesUpTo(n - 1)
         IN  shorter \cup {Append(pg, Dto(i)) : pg \in {x \in shorter : Len(x) = n - 1},
                                                i \in 1..MaxId}

\* PagedMessagesResponse, the fields the hook reads.
Responses == [messages : PagesUpTo(MaxPageLen), hasMore : BOOLEAN]

convertToMessage(dto) ==
    [id |-> Decimal(dto.id), content |-> dto.content,
     sender |-> IF dto.type = "USER" THEN "user" ELSE "misha",
     timestamp |-> dto.createdAt]

MapConvert(dtos) == [i \in DOMAIN dtos |-> convertToMessage(dtos[i])]

RECURSIVE FilterNotLoaded(_, _)
\* response.messages.filter(dto => !loadedMessageIds.current.has(dto.id.toString()))
FilterNotLoaded(dtos, ids) ==
    IF dtos = <<>> THEN <<>>
    ELSE (IF Decimal(Head(dtos).id) \in ids THEN <<>> ELSE <<Head(dtos)>>)
         \o FilterNotLoaded(Tail(dtos), ids)

IdsOf(messages) == {messages[i].id : i \in DOMAIN messages}

KeepLoadedIds(ids) == ids

\* loadedMessageIds.current.clear()
ClearLoadedIds(ids) == {}

HsInit ==
    [messages |-> <<>>, conversationId |-> NullId, hasMoreMessages |-> FALSE,
     isLoadingHistory |-> FALSE, isLoadingMore |-> FALSE, currentPage |-> 0]

\* What loadMoreMessages closes over (its useCallback dependencies).
ViewOf(h) ==
    [conversationId |-> h.conversationId, hasMoreMessages |-> h.hasMoreMessages,
     isLoadingMore |-> h.isLoadingMore, currentPage |-> h.currentPage]

\* The store: the React state and the ref.
Store(h, ids) == [hs |-> h, ids |-> ids]

InitStore == Store(HsInit, {})

\* loadInitialMessages up to the await.
StartInitial(st) ==
    Store([st.hs EXCEPT !.isLoadingHistory = TRUE], ClearLoadedIds(st.ids))

\* loadInitialMessages after a successful fetch, with its finally block.
ResolveInitial(st, convId, resp) ==
    LET convertedMessages == MapConvert(resp.messages)
    IN  Store([st.hs EXCEPT !.messages = convertedMessages,
                            !.hasMoreMessages = resp.hasMore,
                            !.currentPage = 0,
                            !.conversationId = convId,
                            !.isLoadingHistory = FALSE],
              st.ids \cup IdsOf(convertedMessages))

\* loadInitialMessages when the fetch throws: catch, then finally.
FailInitial(st) == Store([st.hs EXCEPT !.isLoadingHistory = FALSE], st.ids)

LoadMoreIgnoresHasMore(v) == v.conversationId \in {NullId, ""} \/ v.isLoadingMore

\* if (!conversationId || !hasMoreMessages || isLoadingMore) return;
LoadMoreReturnsEarly(v) ==
    v.conversationId \in {NullId, ""} \/ ~v.hasMoreMessages \/ v.isLoadingMore

\* loadMoreMessages up to the await.
StartMore(st) == Store([st.hs EXCEPT !.isLoadingMore = TRUE], st.ids)

ResolveMoreUnfiltered(st, nextPage, resp) ==
    LET newMessages == MapConvert(resp.messages)
    IN  Store([st.hs EXCEPT !.messages = newMessages \o st.hs.messages,
                            !.hasMoreMessages = resp.hasMore,
                            !.currentPage = nextPage,
                            !.isLoadingMore = FALSE],
              st.ids \cup IdsOf(newMessages))

\* loadMoreMessages after a successful fetch, with its finally block.
ResolveMore(st, nextPage, resp) ==
    LET newMessages == MapConvert(FilterNotLoaded(resp.messages, st.ids))
    IN  Store([st.hs EXCEPT !.messages = newMessages \o st.hs.messages,
                            !.hasMoreMessages = resp.hasMore,
                            !.currentPage = nextPage,
                            !.isLoadingMore = FALSE],
              st.ids \cup IdsOf(newMessages))

\* loadMoreMessages when the fetch throws: catch, then finally.
FailMore(st) == Store([st.hs EXCEPT !.isLoadingMore = FALSE], st.ids)

AdoptWithoutConversationId(st, ext) == StartInitial(st)

\* loadActiveConversation on a conversation: setConversationId(ext), then
\* loadInitialMessages(ext) up to its await.
AdoptConversation(st, ext) ==
    StartInitial(Store([st.hs EXCEPT !.conversationId = ext], st.ids))

ClearedKeepsPaging(st) ==
    Store([st.hs EXCEPT !.messages = <<>>, !.conversationId = NullId],
          ClearLoadedIds(st.ids))

\* clearHistory
Cleared(st) ==
    Store([st.hs EXCEPT !.messages = <<>>, !.conversationId = NullId,
                        !.hasMoreMessages = FALSE, !.currentPage = 0],
          ClearLoadedIds(st.ids))

\* ----------------------------------------------- useChatHistory: steps
NoResponse == [messages |-> <<>>, hasMore |-> FALSE]

\* The record of a step: afterClear marks a clearHistory called with no load in
\* flight and the loadInitialMessages that directly follows it; prevMessages and
\* prevIds are the list and the id set the step (or that clearHistory) started from;
\* returns is the conversation a loadActiveConversation call returned in the step.
Step(op, convId, afterClear, resp, prevMessages, prevIds) ==
    [op |-> op, convId |-> convId, afterClear |-> afterClear, resp |-> resp,
     prevMessages |-> prevMessages, prevIds |-> prevIds, returns |-> NullId]

Plain(op) == Step(op, NullId, FALSE, NoResponse, <<>>, {})

\* A fetch in flight; active marks the initial load loadActiveConversation awaits.
Request(op, convId, page, afterClear) ==
    [op |-> op, convId |-> convId, page |-> page, afterClear |-> afterClear,
     active |-> FALSE]

\* What loadActiveConversation returns once the load it awaits has settled.
ReturnedBy(request) == IF request.active THEN request.convId ELSE NullId

RemoveAt(q, i) == SubSeq(q, 1, i - 1) \o SubSeq(q, i + 1, Len(q))

SetStore(st) == hs' = st.hs /\ loadedMessageIds' = st.ids

\* React re-renders the hook: the callbacks are re-created over the current state.
Render ==
    /\ view # ViewOf(hs)
    /\ view' = ViewOf(hs)
    /\ UNCHANGED <<hs, loadedMessageIds, inflight, callCount, last, streamVars, persisted>>

LoadInitialMessages ==
    /\ callCount < MaxCalls
    /\ \E convId \in Convs \cup {""} :
          /\ convId # ""
          /\ LET follows == last.op = "clear" /\ last.afterClear
             IN  /\ inflight' = Append(inflight, Request("initial", convId, 0, follows))
                 /\ last' = Step("initialStart", convId, follows, NoResponse,
                                 IF follows THEN last.prevMessages ELSE <<>>,
                                 IF follows THEN last.prevIds ELSE {})
    /\ SetStore(StartInitial(Store(hs, loadedMessageIds)))
    /\ callCount' = callCount + 1
    /\ UNCHANGED <<view, streamVars, persisted>>

\* api.getInitialMessages resolves.
InitialResolves ==
    /\ \E i \in DOMAIN inflight, resp \in Responses :
          /\ inflight[i].op = "initial"
          /\ SetStore(ResolveInitial(Store(hs, loadedMessageIds), inflight[i].convId, resp))
          /\ LET follows == inflight[i].afterClear /\ last.op = "initialStart"
             IN  last' = [Step("initialOk", inflight[i].convId, follows, resp,
                               IF follows THEN last.prevMessages ELSE <<>>,
                               IF follows THEN last.prevIds ELSE {})
                          EXCEPT !.returns = ReturnedBy(inflight[i])]
          /\ inflight' = RemoveAt(inflight, i)
    /\ UNCHANGED <<view, callCount, streamVars, persisted>>

\* api.getInitialMessages throws (network failure, !response.ok).
InitialFails ==
    /\ \E i \in DOMAIN inflight :
          /\ inflight[i].op = "initial"
          /\ inflight' = RemoveAt(inflight, i)
          /\ last' = [Plain("initialFail") EXCEPT !.returns = ReturnedBy(inflight[i])]
    /\ SetStore(FailInitial(Store(hs, loadedMessageIds)))
    /\ UNCHANGED <<view, callCount, streamVars, persisted>>

\* The guard reads the state the callback was created with.
LoadMoreMessages ==
    /\ callCount < MaxCalls
    /\ ~LoadMoreReturnsEarly(view)
    /\ SetStore(StartMore(Store(hs, loadedMessageIds)))
    /\ inflight' = Append(inflight,
                          Request("more", view.conversationId, view.currentPage + 1, FALSE))
    /\ callCount' = callCount + 1
    /\ last' = Plain("moreStart")
    /\ UNCHANGED <<view, streamVars, persisted>>

\* loadMoreMessages returns at its guard.
LoadMoreNoOp ==
    /\ callCount < MaxCalls
    /\ LoadMoreReturnsEarly(view)
    /\ callCount' = callCount + 1
    /\ last' = Plain("moreNoOp")
    /\ UNCHANGED <<hs, view, loadedMessageIds, inflight, streamVars, persisted>>

\* api.getMessagesForConversation resolves.
MoreResolves ==
    /\ \E i \in DOMAIN inflight, resp \in Responses :
          /\ inflight[i].op = "more"
          /\ SetStore(ResolveMore(Store(hs, loadedMessageIds), inflight[i].page, resp))
          /\ last' = Step("moreOk", inflight[i].convId, FALSE, resp,
                          hs.messages, loadedMessageIds)
          /\ inflight' = RemoveAt(inflight, i)
    /\ UNCHANGED <<view, callCount, streamVars, persisted>>

\* api.getMessagesForConversation throws.
MoreFails ==
    /\ \E i \in DOMAIN inflight :
          /\ inflight[i].op = "more"
          /\ inflight' = RemoveAt(inflight, i)
    /\ SetStore(FailMore(Store(hs, loadedMessageIds)))
    /\ last' = Plain("moreFail")
    /\ UNCHANGED <<view, callCount, streamVars, persisted>>

ClearHistory ==
    /\ callCount < MaxCalls
    /\ callCount' = callCount + 1
    /\ SetStore(Cleared(Store(hs, loadedMessageIds)))
    /\ last' = Step("clear", NullId, inflight = <<>>, NoResponse, hs.messages,
                     loadedMessageIds)
    /\ UNCHANGED <<view, inflight, streamVars, persisted>>

\* The setter the hook returns.
SetConversationId ==
    /\ callCount < MaxCalls
    /\ callCount' = callCount + 1
    /\ \E id \in Convs \cup {NullId} :
          /\ hs.conversationId # id
          /\ hs' = [hs EXCEPT !.conversationId = id]
    /\ last' = Plain("setConversationId")
    /\ UNCHANGED <<view, loadedMessageIds, inflight, streamVars, persisted>>

\* loadActiveConversation up to the await; it returns at once without a patient id.
LoadActiveConversation ==
    /\ callCount < MaxCalls
    /\ \E patientId \in {0, 1} :
          /\ patientId # 0
          /\ hs' = [hs EXCEPT !.isLoadingHistory = TRUE]
          /\ inflight' = Append(inflight, Request("active", NullId, 0, FALSE))
    /\ callCount' = callCount + 1
    /\ last' = Plain("activeStart")
    /\ UNCHANGED <<view, loadedMessageIds, streamVars, persisted>>

\* HTTP 204: no active conversation; null is returned, finally clears the flag.
ActiveNone ==
    /\ \E i \in DOMAIN inflight :
          /\ inflight[i].op = "active"
          /\ inflight' = RemoveAt(inflight, i)
    /\ hs' = [hs EXCEPT !.isLoadingHistory = FALSE]
    /\ last' = Plain("activeNone")
    /\ UNCHANGED <<view, loadedMessageIds, callCount, streamVars, persisted>>

\* A conversation is returned: its id is adopted and loadInitialMessages is
\* awaited; the finally blocks run when that load settles.
ActiveFound ==
    /\ \E i \in DOMAIN inflight, ext \in Convs :
          /\ inflight[i].op = "active"
          /\ SetStore(AdoptConversation(Store(hs, loadedMessageIds), ext))
          /\ inflight' = Append(RemoveAt(inflight, i),
                                [Request("initial", ext, 0, FALSE) EXCEPT !.active = TRUE])
          /\ last' = Step("activeFound", ext, FALSE, NoResponse, <<>>, {})
    /\ UNCHANGED <<view, callCount, streamVars, persisted>>

\* getActiveConversationForPatient throws.
ActiveFails ==
    /\ \E i \in DOMAIN inflight :
          /\ inflight[i].op = "active"
          /\ inflight' = RemoveAt(inflight, i)
    /\ hs' = [hs EXCEPT !.isLoadingHistory = FALSE]
    /\ last' = Plain("activeFail")
    /\ UNCHANGED <<view, loadedMessageIds, callCount, streamVars, persisted>>

HistoryNext ==
    \/ Render
    \/ LoadInitialMessages
    \/ InitialResolves
    \/ InitialFails
    \/ LoadMoreMessages
    \/ LoadMoreNoOp
    \/ MoreResolves
    \/ MoreFails
    \/ ClearHistory
    \/ SetConversationId
    \/ LoadActiveConversation
    \/ ActiveNone
    \/ ActiveFound
    \/ ActiveFails

\* ------------------------------------------- useChatHistory: paging
\* The hook's default page sizes.
initialPageSize == 15
pageSize == 20

Min(a, b) == IF a < b THEN a ELSE b

\* The messages of newest-first ranks from..to out of n persisted messages with
\* ids 1..n in creation order, newest first.
Ranked(n, from, to) ==
    [k \in 1..(IF to >= from THEN to - from + 1 ELSE 0) |-> Dto(n - (from + k - 1) + 1)]

\* GET .../messages/initial?size=: the newest size messages.
BackendInitial(n, size) ==
    [messages |-> Ranked(n, 1, Min(size, n)), hasMore |-> n > size]

\* GET .../messages?page=&size=: page 0 holds the newest size messages, page p
\* the messages of ranks p * size + 1 .. (p + 1) * size.
BackendPage(n, page, size) ==
    [messages |-> Ranked(n, page * size + 1, Min((page + 1) * size, n)),
     hasMore |-> n > (page + 1) * size]

\* The backend holds a conversation of some length.
BackendHolds ==
    /\ persisted = 0
    /\ callCount = 0
    /\ persisted' \in 1..MaxPersisted
    /\ UNCHANGED <<hs, view, loadedMessageIds, inflight, callCount, last, streamVars>>

\* api.getInitialMessages resolves with the backend's newest page.
PagedInitialResolves ==
    /\ \E i \in DOMAIN inflight :
          /\ inflight[i].op = "initial"
          /\ LET resp == BackendInitial(persisted, initialPageSize)
             IN  /\ SetStore(ResolveInitial(Store(hs, loadedMessageIds),
                                            inflight[i].convId, resp))
                 /\ last' = Step("initialOk", inflight[i].convId, FALSE, resp, <<>>, {})
          /\ inflight' = RemoveAt(inflight, i)
    /\ UNCHANGED <<view, callCount, streamVars, persisted>>

\* api.getMessagesForConversation resolves with the backend's page.
PagedMoreResolves ==
    /\ \E i \in DOMAIN inflight :
          /\ inflight[i].op = "more"
          /\ LET resp == BackendPage(persisted, inflight[i].page, pageSize)
             IN  /\ SetStore(ResolveMore(Store(hs, loadedMessageIds), inflight[i].page, resp))
                 /\ last' = Step("moreOk", inflight[i].convId, FALSE, resp,
                                 hs.messages, loadedMessageIds)
          /\ inflight' = RemoveAt(inflight, i)
    /\ UNCHANGED <<view, callCount, streamVars, persisted>>

\* One conversation read from the newest page back to the oldest.
PagingNext ==
    \/ BackendHolds
    \/ LoadInitialMessages
    \/ PagedInitialResolves
    \/ Render
    \/ LoadMoreMessages
    \/ PagedMoreResolves

\* ------------------------------------------------- Chat page: sends
\* handleSendMessage called again, whatever the state of earlier requests: the
\* clock has advanced by before since the last read, and by tick between the
\* two reads of the call.
SendAgain ==
    /\ Len(chat.messages) < 2 * MaxSends
    /\ \E messageText \in MessageTexts, before \in 0..MaxTick, tick \in 0..MaxTick :
          LET t1 == chat.now + before
              t2 == t1 + tick
          IN  chat' = [ChatSend(chat, messageText, t1, t2) EXCEPT !.now = t2]
    /\ UNCHANGED <<pc, response, pos, buffer, calls, outcome, ctl, histVars>>

ChatNext == SendAgain

\* ------------------------------------------------------- specifications
Init ==
    /\ pc = "idle"
    /\ response = [kind |-> "none", status |-> 0, body |-> <<>>]
    /\ pos = 0
    /\ buffer = <<>>
    /\ calls = <<>>
    /\ outcome = "pending"
    /\ ctl = CtlInit
    /\ chat = ChatInit
    /\ hs = HsInit
    /\ view = ViewOf(HsInit)
    /\ loadedMessageIds = {}
    /\ inflight = <<>>
    /\ callCount = 0
    /\ last = Plain("init")
    /\ persisted = 0

\* One chat request, from send to completion.
StreamSpec == Init /\ [][StreamNext]_vars

\* One instance of the history hook.
HistorySpec == Init /\ [][HistoryNext]_vars

\* The history hook against a backend that pages one conversation.
PagingSpec == Init /\ [][PagingNext]_vars

\* The messages of one chat page over several sends.
ChatSpec == Init /\ [][ChatNext]_vars

\* --------------------------------------------------------------- claims
CountCalls(name) == Cardinality({i \in DOMAIN calls : calls[i].cb = name})

RECURSIVE DeltaText(_)
DeltaText(cs) ==
    IF cs = <<>> THEN <<>>
    ELSE (IF Head(cs).cb = "onDelta" THEN Head(cs).arg ELSE <<>>) \o DeltaText(Tail(cs))

EndOfInput == pc = "done" /\ outcome = "eof"

\* The lines of a body, the unterminated tail included.
LinesOf(body) == Split(body)

NamesComplete(line) == StartsWith(line, EventPrefix) /\ Trim(Slice(line, 7)) = EvComplete

\* An `event: complete` line directly followed by a `data: ` line.
HasCompleteEvent(body) ==
    \E i \in 1..(Len(LinesOf(body)) - 1) :
        /\ NamesComplete(LinesOf(body)[i])
        /\ StartsWith(LinesOf(body)[i + 1], DataPrefix)

\* C1: whatever the chunking, a body read to its end yields the callbacks that
\* the same body yields when it arrives as one chunk.
C1_ChunkingTransparent ==
    EndOfInput =>
        calls = ProcessChunk(<<>>, response.body).cbs \o <<Cb("onComplete", <<>>)>>

\* C2: the init / Hel / lo / ! / complete stream yields exactly one onInit("abc"),
\* deltas that concatenate to "Hello!" and exactly one onComplete.
C2_HelloStreamDecoded ==
    (EndOfInput /\ response.body = HelloStream) =>
        /\ CountCalls("onInit") = 1
        /\ \A i \in DOMAIN calls : calls[i].cb = "onInit" => calls[i].arg = Abc
        /\ DeltaText(calls) = Hello
        /\ CountCalls("onComplete") = 1

\* C3: a stream with an explicit complete event that then reaches end-of-stream
\* fires the caller's completion callback exactly once.
C3_CompletionOnce ==
    (EndOfInput /\ HasCompleteEvent(response.body)) => chat.completions = 1

\* The decoder signalled completion twice and the caller saw one.
C3_Witness ==
    /\ EndOfInput
    /\ HasCompleteEvent(response.body)
    /\ CountCalls("onComplete") = 2
    /\ chat.completions = 1

\* C4: a stream without a line naming the complete event that reaches
\* end-of-input invokes onComplete exactly once, after every other callback.
C4_EndOfInputCompletesOnce ==
    (EndOfInput /\ \A i \in DOMAIN LinesOf(response.body) :
                       ~NamesComplete(LinesOf(response.body)[i])) =>
        /\ CountCalls("onComplete") = 1
        /\ calls[Len(calls)].cb = "onComplete"

\* Two lines produced callbacks before the completion at end-of-input.
C4_Witness ==
    /\ EndOfInput
    /\ \A i \in DOMAIN LinesOf(response.body) : ~NamesComplete(LinesOf(response.body)[i])
    /\ Len(calls) = 3
    /\ calls[3].cb = "onComplete"

TookFailurePath ==
    \/ outcome \in {"reject", "http", "nobody", "readerr"}
    \/ CountCalls("onError") > 0

\* C5: a request that took a failure path has had its completion callback
\* invoked, and the typing and loading flags are back to false.
C5_FailureCompletes ==
    TookFailurePath => chat.completions >= 1 /\ ~chat.isTyping /\ ~ctl.isLoading

\* A read failed after part of the body had been decoded.
C5_Witness ==
    /\ outcome = "readerr"
    /\ CountCalls("onDelta") > 0
    /\ chat.completions = 1
    /\ ~chat.isTyping

OnlyOneError == Len(calls) = 1 /\ calls[1].cb = "onError"

\* C6: a connection that cannot be opened or a non-success status yields one
\* onError and nothing else; for a status the message is the body's `error`
\* field when the body parses as JSON with that field, else `HTTP error: <status>`.
C6_OpenFailureMessage ==
    /\ outcome = "reject" => OnlyOneError
    /\ outcome = "http" =>
          /\ OnlyOneError
          /\ calls[1].arg =
                IF JSONParse(response.body).ok /\ JSONParse(response.body).hasError
                THEN JSONParse(response.body).error
                ELSE HttpErrorPrefix \o Decimal(response.status)

\* C6, as the code behaves: the `error` field is used only when it is a non-empty
\* string of a parsed object; a body that parses to null yields the runtime's
\* TypeError text instead of `HTTP error: <status>`.
C6_OpenFailureMessageAmended ==
    /\ outcome = "reject" => OnlyOneError
    /\ outcome = "http" =>
          /\ OnlyOneError
          /\ calls[1].arg =
                IF response.body = NullJson THEN NullPropertyError
                ELSE IF response.body = ErrorJson THEN Boom
                ELSE HttpErrorPrefix \o Decimal(response.status)

C6_Witness ==
    /\ outcome = "http"
    /\ response.body = ErrorJson
    /\ calls = <<Cb("onError", Boom)>>

\* C7: at most one load-more fetch is outstanding; a second loadMoreMessages
\* made before the first resolves issues none.
C7_SingleLoadMoreFetch ==
    Cardinality({i \in DOMAIN inflight : inflight[i].op = "more"}) <= 1

AlreadyLoaded(dto) == Decimal(dto.id) \in last.prevIds

NotYetLoaded(dto) == ~AlreadyLoaded(dto)

\* C8: a successful loadMoreMessages prepends exactly the page's messages whose
\* ids were not loaded, in front of the unchanged list, so that
\* newLength = oldLength + (pageSize - overlapCount), and adds exactly their ids.
C8_LoadMorePrependsNew ==
    last.op = "moreOk" =>
        LET page == last.resp.messages
            fresh == SelectSeq(page, NotYetLoaded)
            overlapCount == Len(SelectSeq(page, AlreadyLoaded))
        IN  /\ hs.messages = [i \in DOMAIN fresh |-> convertToMessage(fresh[i])]
                                \o last.prevMessages
            /\ Len(hs.messages) = Len(last.prevMessages) + (Len(page) - overlapCount)
            /\ loadedMessageIds = last.prevIds \cup {Decimal(fresh[i].id) : i \in DOMAIN fresh}

\* A page of one loaded and one new message.
C8_Witness ==
    /\ last.op = "moreOk"
    /\ Len(SelectSeq(last.resp.messages, AlreadyLoaded)) = 1
    /\ Len(SelectSeq(last.resp.messages, NotYetLoaded)) = 1
    /\ Len(hs.messages) = Len(last.prevMessages) + 1

NewestFirst(page) ==
    \A i, j \in DOMAIN page : i < j => page[i].createdAt > page[j].createdAt

Ascending(messages) ==
    \A i, j \in DOMAIN messages : i < j => messages[i].timestamp <= messages[j].timestamp

\* C9: after a successful load whose page came newest-first (and, for a
\* load-more, was older than an ascending list), the list is oldest first.
C9_AscendingAfterLoad ==
    /\ (last.op = "initialOk" /\ NewestFirst(last.resp.messages)) => Ascending(hs.messages)
    /\ (/\ last.op = "moreOk"
        /\ NewestFirst(last.resp.messages)
        /\ Ascending(last.prevMessages)
        /\ \A i \in DOMAIN last.resp.messages, j \in DOMAIN last.prevMessages :
               last.resp.messages[i].createdAt < last.prevMessages[j].timestamp)
       => Ascending(hs.messages)

Contents(st) ==
    [messages |-> st.hs.messages, ids |-> st.ids,
     conversationId |-> st.hs.conversationId,
     hasMoreMessages |-> st.hs.hasMoreMessages, currentPage |-> st.hs.currentPage]

\* C10: clearHistory on a store with no load in flight, followed by a successful
\* loadInitialMessages(c) with response R, leaves messages, loaded ids,
\* conversationId, hasMore and page cursor as a fresh instance has them after the
\* same load.
C10_ClearThenLoadIsFresh ==
    (last.op = "initialOk" /\ last.afterClear) =>
        Contents(Store(hs, loadedMessageIds))
            = Contents(ResolveInitial(StartInitial(InitStore), last.convId, last.resp))

\* The cleared store held ids, and none of them is left after the load.
C10_Witness ==
    /\ last.op = "initialOk"
    /\ last.afterClear
    /\ last.prevIds # {}
    /\ last.resp.messages # <<>>
    /\ loadedMessageIds \cap last.prevIds = {}

\* C11: a send made without a patient id issues no request to /api/chat/stream
\* and streams nothing: whenever the hook's send carried no patient id, no
\* response was ever awaited and no callback was invoked.
C11_NoPatientNoRequest ==
    ctl.patientId = NullPatient =>
        /\ pc \in {"idle", "done"}
        /\ response.kind = "none"
        /\ calls = <<>>
        /\ \A i \in DOMAIN chat.messages :
               chat.messages[i].sender = "misha" => chat.messages[i].content = <<>>

\* The page sent a message and the hook rejected it.
C11_Witness ==
    /\ outcome = "nopatient"
    /\ ctl.patientId = NullPatient
    /\ Len(chat.messages) = 2
    /\ response.kind = "none"

DistinctIds(ms) == \A i, j \in DOMAIN ms : i # j => ms[i].id # ms[j].id

\* C12: no two messages of the list share an id, whatever operations ran and
\* whatever pages the server sent.
C12_NoDuplicateIds == DistinctIds(hs.messages)

\* The same, restricted to a load-more whose page repeats no id and whose list
\* held no duplicate: the duplicate then comes from merging the page after a
\* later loadInitialMessages emptied the id set.
C12_NoDuplicateIdsFromMerge ==
    (/\ last.op = "moreOk"
     /\ DistinctIds(last.resp.messages)
     /\ DistinctIds(last.prevMessages))
    => DistinctIds(hs.messages)

HasEscape(text) ==
    \E i \in 1..(Len(text) - 1) : text[i] = "\\" /\ text[i + 1] \in {"n", "r"}

\* C13: the text handed to onDelta holds a real newline / carriage return for
\* every backslash-n / backslash-r of the payload, and no such pair is left.
C13_EscapesDecoded ==
    /\ \A i \in DOMAIN calls : calls[i].cb = "onDelta" => ~HasEscape(calls[i].arg)
    /\ (EndOfInput /\ response.body = JoinLines(<<DataPrefix \o EscapedPayload>>)) =>
           calls = <<Cb("onDelta", <<LF, "\\", CR>>), Cb("onComplete", <<>>)>>

\* The escaped payload was read to its end and decoded.
C13_Witness ==
    /\ EndOfInput
    /\ response.body = JoinLines(<<DataPrefix \o EscapedPayload>>)
    /\ calls[1] = Cb("onDelta", <<LF, "\\", CR>>)

\* The payload of a `data: ` line.
PayloadOf(line) == Trim(Slice(line, 6))

\* C14: an init event invokes onInit with the payload's conversationId exactly
\* when the payload parses as JSON with that field, and a malformed payload
\* invokes nothing: a body of an `event: init` line and a data line yields that
\* onInit (or nothing) and then the completion of end-of-input.
C14_InitDecoded ==
    (/\ EndOfInput
     /\ Len(LinesOf(response.body)) = 3
     /\ LinesOf(response.body)[1] = EventPrefix \o EvInit
     /\ StartsWith(LinesOf(response.body)[2], DataPrefix)
     /\ LinesOf(response.body)[3] = <<>>)
    => LET parsed == JSONParse(PayloadOf(LinesOf(response.body)[2]))
       IN  calls = (IF parsed.ok /\ parsed.hasConversationId
                    THEN <<Cb("onInit", parsed.conversationId)>> ELSE <<>>)
                   \o <<Cb("onComplete", <<>>)>>

LoadMoreCalled == callCount' = callCount + 1 /\ last'.op \in {"moreStart", "moreNoOp"}

InitialLoadInFlight == \E i \in DOMAIN inflight : inflight[i].op \in {"initial", "active"}

\* C16: prepend and replace do not interleave: loadMoreMessages neither starts
\* nor merges its page while an initial load is in flight (two load-mores in
\* flight at once are the subject of C7).
C16_NoInterleaving ==
    last.op \in {"moreStart", "moreOk"} => ~InitialLoadInFlight

\* C17: after a successful loadInitialMessages(c) the list is the converted page,
\* the id set is exactly the ids of the list, hasMore is the response's, the
\* cursor is 0 and the conversation is c.
C17_InitialLoadReplaces ==
    last.op = "initialOk" =>
        /\ hs.messages = [i \in DOMAIN last.resp.messages |->
                              convertToMessage(last.resp.messages[i])]
        /\ loadedMessageIds = {hs.messages[i].id : i \in DOMAIN hs.messages}
        /\ hs.hasMoreMessages = last.resp.hasMore
        /\ hs.currentPage = 0
        /\ hs.conversationId = last.convId

ActiveInitialInFlight(convId) ==
    \E i \in DOMAIN inflight :
        inflight[i].op = "initial" /\ inflight[i].active /\ inflight[i].convId = convId

\* C18: on HTTP 204 loadActiveConversation returns null and leaves messages,
\* conversationId, hasMore and cursor alone; on a conversation it adopts the
\* externalConversationId, starts the initial load of exactly that id, and
\* returns the conversation only when that load has settled.
C18_LoadActiveConversation ==
    /\ [][last'.op = "activeNone" =>
             /\ last'.returns = NullId
             /\ hs'.messages = hs.messages
             /\ hs'.conversationId = hs.conversationId
             /\ hs'.hasMoreMessages = hs.hasMoreMessages
             /\ hs'.currentPage = hs.currentPage]_vars
    /\ [](last.op = "activeFound" =>
             /\ hs.conversationId = last.convId
             /\ ActiveInitialInFlight(last.convId)
             /\ last.returns = NullId)
    /\ [](last.returns # NullId =>
             /\ last.op \in {"initialOk", "initialFail"}
             /\ last.op = "initialOk" => last.returns = last.convId)

\* The awaited load succeeded and the conversation was returned.
C18_Witness ==
    /\ last.op = "initialOk"
    /\ last.returns = "c2"
    /\ hs.conversationId = "c2"
    /\ hs.messages # <<>>

\* No conversation: null was returned to a hook that held a loaded conversation.
C18_WitnessNone ==
    /\ last.op = "activeNone"
    /\ hs.messages # <<>>
    /\ hs.conversationId # NullId

\* C19: right after clearHistory the list is empty, the conversation null,
\* hasMore false, the cursor 0 and the id set empty, as in a new instance.
C19_ClearHistoryResets ==
    last.op = "clear" =>
        /\ hs.messages = <<>>
        /\ hs.conversationId = NullId
        /\ ~hs.hasMoreMessages
        /\ hs.currentPage = 0
        /\ loadedMessageIds = {}
        /\ Contents(Store(hs, loadedMessageIds)) = Contents(InitStore)

\* clearHistory ran on a store that held messages and ids and had more pages.
C19_Witness ==
    /\ last.op = "clear"
    /\ last.prevMessages # <<>>
    /\ last.prevIds # {}
    /\ view.hasMoreMessages
    /\ hs.messages = <<>>

\* C20: the list holds only messages of the current conversation: a step that
\* changes the conversation identity leaves the list and the id set reset, and a
\* load-more page is merged only into the list of the conversation it was
\* fetched for.
C20_ConversationChangeResets ==
    /\ last.op \in {"setConversationId", "activeFound"} =>
           hs.messages = <<>> /\ loadedMessageIds = {}
    /\ last.op = "moreOk" => last.convId = hs.conversationId

\* The content of the provisional assistant message, empty before the send.
ProvisionalContent(c) ==
    IF \E i \in DOMAIN c.messages : c.messages[i].id = c.assistantId
    THEN c.messages[CHOOSE i \in DOMAIN c.messages : c.messages[i].id = c.assistantId].content
    ELSE <<>>

IsPrefix(p, t) == Len(p) <= Len(t) /\ SubSeq(t, 1, Len(p)) = p

\* C21: the provisional assistant message only grows by appending while the
\* request streams, and no step changes it once the completion callback has run.
C21_ContentFrozenAtComplete ==
    [][/\ IsPrefix(ProvisionalContent(chat), ProvisionalContent(chat'))
       /\ chat.completions >= 1 => ProvisionalContent(chat') = ProvisionalContent(chat)]_vars

\* The lines of a body that a newline terminates.
TerminatedLines(body) == SubSeq(LinesOf(body), 1, Len(LinesOf(body)) - 1)

\* The deltas of a sequence of lines under the framing of the protocol: an
\* `event: ` line names the event of the data lines that follow, an empty line
\* resets it, and a data line of any event but init, complete and error is a delta.
RECURSIVE FramedDeltas(_, _)
FramedDeltas(event, lines) ==
    IF lines = <<>> THEN <<>>
    ELSE LET line == Head(lines)
         IN  IF StartsWith(line, EventPrefix)
             THEN FramedDeltas(Trim(Slice(line, 7)), Tail(lines))
             ELSE IF line = <<>> THEN FramedDeltas(<<>>, Tail(lines))
             ELSE IF StartsWith(line, DataPrefix)
             THEN (IF event \in {EvInit, EvComplete, EvError} THEN <<>>
                   ELSE <<Unescape(PayloadOf(line))>>)
                  \o FramedDeltas(event, Tail(lines))
             ELSE FramedDeltas(event, Tail(lines))

DeltaArgs(cs) ==
    LET ds == SelectSeq(cs, LAMBDA c : c.cb = "onDelta") IN [i \in DOMAIN ds |-> ds[i].arg]

\* C22: the onDelta calls of a session are the default-event data lines of the
\* byte stream that a newline terminates, each once and in stream order.
C22_DeltasInStreamOrder ==
    EndOfInput => DeltaArgs(calls) = FramedDeltas(<<>>, TerminatedLines(response.body))

HasEventLine(body) ==
    \E i \in DOMAIN LinesOf(body) : StartsWith(LinesOf(body)[i], EventPrefix)

\* C22, for streams without any `event: ` line, where every data line is a
\* default-event line whatever the framing: the deltas are the payloads in order.
C22_DeltasInStreamOrderNoEvents ==
    (EndOfInput /\ ~HasEventLine(response.body)) =>
        DeltaArgs(calls) = FramedDeltas(<<>>, TerminatedLines(response.body))

Completes(c) == c.cb \in {"onComplete", "onError"}

\* The index in calls of the callback that completed the request.
CompletedAt == CHOOSE k \in DOMAIN calls :
                  Completes(calls[k]) /\ \A j \in 1..(k - 1) : ~Completes(calls[j])

\* The request has completed and no delta has been delivered since.
JustCompleted ==
    /\ chat.completions >= 1
    /\ \A j \in DOMAIN calls : j > CompletedAt => calls[j].cb # "onDelta"

\* C23: at completion the provisional message shows the fallback string when no
\* delta text had been received, and the accumulated delta text otherwise.
C23_FallbackWhenEmpty ==
    JustCompleted =>
        LET received == DeltaText(SubSeq(calls, 1, CompletedAt - 1))
        IN  ProvisionalContent(chat) = IF received = <<>> THEN FallbackContent ELSE received

\* Completion after a delta that carried no text: the fallback is shown.
C23_Witness ==
    /\ JustCompleted
    /\ CountCalls("onDelta") >= 1
    /\ ProvisionalContent(chat) = FallbackContent

\* Completion after a delta with text: the text stays.
C23_WitnessText ==
    /\ JustCompleted
    /\ ProvisionalContent(chat) = Hi

\* The payloads of the data lines, as the characters behind the prefix with
\* only the escapes replaced.
RECURSIVE LiteralPayloads(_)
LiteralPayloads(lines) ==
    IF lines = <<>> THEN <<>>
    ELSE (IF StartsWith(Head(lines), DataPrefix)
          THEN <<ReplaceEscape(ReplaceEscape(Slice(Head(lines), 6), "n", LF), "r", CR)>>
          ELSE <<>>)
         \o LiteralPayloads(Tail(lines))

\* C24: in a stream of default-event lines every delta is the literal payload of
\* its data line, spaces included.
C24_DeltaIsLiteralPayload ==
    (EndOfInput /\ ~HasEventLine(response.body)) =>
        DeltaArgs(calls) = LiteralPayloads(TerminatedLines(response.body))

Settled(op) == last'.op = op /\ Len(inflight') < Len(inflight)

\* C25: loadMoreMessages asks for the page behind the cursor; a successful fetch
\* advances the cursor by exactly one; a failed fetch leaves list, id set,
\* hasMore and cursor alone and puts isLoadingMore back to false.
C25_CursorAdvancesOnSuccess ==
    [][/\ (last'.op = "moreStart" /\ callCount' = callCount + 1) =>
              inflight'[Len(inflight')].page = view.currentPage + 1
       /\ Settled("moreOk") => hs'.currentPage = hs.currentPage + 1
       /\ Settled("moreFail") =>
              /\ hs'.messages = hs.messages
              /\ loadedMessageIds' = loadedMessageIds
              /\ hs'.hasMoreMessages = hs.hasMoreMessages
              /\ hs'.currentPage = hs.currentPage
              /\ ~hs'.isLoadingMore]_vars

\* C26: whatever the clock values of the sends, no two messages of the chat
\* page share an id.
C26_UniqueChatIds == DistinctIds(chat.messages)

\* C27: a data line that the stream ends on without a newline is decoded like
\* the others before the final completion: in a stream of default-event lines the
\* deltas are the payloads of all lines, the unterminated last one included.
C27_UnterminatedLineDecoded ==
    (EndOfInput /\ ~HasEventLine(response.body)) =>
        /\ DeltaArgs(calls) = FramedDeltas(<<>>, LinesOf(response.body))
        /\ calls[Len(calls)].cb = "onComplete"

\* C28: a load that was in flight when clearHistory ran and resolves next, before
\* any new load is started, leaves list, id set, conversation, hasMore and
\* cursor at their initial values.
C28_ClearedStoreStaysEmpty ==
    [][(last.op = "clear" /\ (Settled("initialOk") \/ Settled("moreOk"))) =>
          [messages |-> hs'.messages, ids |-> loadedMessageIds',
           hasMoreMessages |-> hs'.hasMoreMessages, currentPage |-> hs'.currentPage]
          = [messages |-> <<>>, ids |-> {}, hasMoreMessages |-> FALSE, currentPage |-> 0]]_vars

\* C29: a loadInitialMessages whose fetch fails leaves list, conversation,
\* hasMore and cursor as they were, and the id set equal to the ids of the list.
C29_FailedInitialLoadConsistent ==
    [][Settled("initialFail") =>
          /\ hs'.messages = hs.messages
          /\ hs'.conversationId = hs.conversationId
          /\ hs'.hasMoreMessages = hs.hasMoreMessages
          /\ hs'.currentPage = hs.currentPage
          /\ loadedMessageIds' = {hs'.messages[i].id : i \in DOMAIN hs'.messages}]_vars

\* C30: with the default page sizes, once an initial load and the load-mores
\* that follow it have succeeded and hasMore is false, every persisted message
\* of the conversation is in the list exactly once.
C30_EveryMessageLoadedOnce ==
    (/\ last.op \in {"initialOk", "moreOk"}
     /\ inflight = <<>>
     /\ ~hs.hasMoreMessages)
    => /\ {hs.messages[i].id : i \in DOMAIN hs.messages} = {Decimal(k) : k \in 1..persisted}
       /\ Len(hs.messages) = persisted

====
